---- MODULE Spec2Model ----
(***************************************************************************)
(* Job Response Generator.                                                 *)
(*                                                                         *)
(* Two programs are modelled:                                              *)
(*   - src/main_backend.py: the pure prompt-construction functions         *)
(*     (get_greeting_format, get_language_instructions, build_prompt),     *)
(*     exercised by the specification BackendSpec;                         *)
(*   - src/job-application.py: the Streamlit script with its               *)
(*     "Generate reply" handler, exercised by the specification Spec.      *)
(*                                                                         *)
(* Text.  A Python str is a sequence of tokens.  A token is a TLA+ string: *)
(* either one character (texts the code inspects character by character:   *)
(* formality labels, greeting templates, keys, replies) or one fixed       *)
(* literal of the source kept whole (a directive sentence, a guide         *)
(* fragment).  The empty str is << >>, concatenation is \o.  Non-ASCII     *)
(* characters of the source literals are written in ASCII.                 *)
(***************************************************************************)
EXTENDS Integers, Sequences, FiniteSets, TLC

VARIABLES
    \* ---- src/job-application.py: the Streamlit session --------------
    secrets_key,        \* st.secrets["OPENAI_API_KEY"], or None
    env_key,            \* os.getenv("OPENAI_API_KEY"), or None
    file_key,           \* contents of OPENAI_API_KEY.txt, or None
    api_key,            \* module global api_key
    openai,             \* module global openai: Unbound or a client
    resume_file,        \* widget: uploaded resume
    cover_file,         \* widget: uploaded cover letter
    job_url,            \* widget: "Job URL (optional)"
    job_text_area,      \* widget: pasted job description
    tone,               \* widget: multiselect "Tone"
    language,           \* widget: selectbox "Language"
    additional_notes,   \* widget: manual notes
    resume_text,        \* handler local
    cover_text,         \* handler local
    job_text,           \* script variable job_text (reassigned by the fetch)
    system_instructions,\* handler local
    user_content,       \* handler local
    request,            \* what was sent to the generation service last
    response,           \* what the generation service answered last
    messages,           \* st.error / st.warning / st.info / st.success shown in this run
    fetch_calls,        \* requests.get calls made in this run
    fetch_ok,           \* whether the fetch of this run succeeded
    service_calls,      \* chat.completions.create calls made in this run
    generated_reply,    \* session slot: widget state key "generated_reply"
    pc,                 \* position of the script run
    \* ---- src/main_backend.py: one call of the pure functions ---------
    b_language,         \* argument language
    b_formality,        \* argument formality
    b_tone,             \* argument tone
    b_texts,            \* arguments resume_text, cover_text, job_text, additional_notes
    b_greeting,         \* value of get_greeting_format
    b_guide,            \* value of get_language_instructions
    b_prompt,           \* value and locals of build_prompt (main_backend.py)
    a_prompt            \* value and locals of build_prompt (job-application.py)

app_vars == <<secrets_key, env_key, file_key, api_key, openai, resume_file,
              cover_file, job_url, job_text_area, tone, language,
              additional_notes, resume_text, cover_text, job_text,
              system_instructions, user_content, request, response, messages,
              fetch_calls, fetch_ok, service_calls, generated_reply, pc>>

backend_vars == <<b_language, b_formality, b_tone, b_texts,
                  b_greeting, b_guide, b_prompt, a_prompt>>

vars == <<app_vars, backend_vars>>

----------------------------------------------------------------------------
(* Python values *)

\* Python None, kept a sequence so that it compares with every str.
None == <<"<None>">>

\* Python truthiness of an Optional[str].
Truthy(s) == s # None /\ s # << >>

\* The empty dict; a dict is a function from its keys.
EmptyDict == [k \in {} |-> << >>]

\* d.get(k, default)
DictGet(d, k, default) == IF k \in DOMAIN d THEN d[k] ELSE default

\* truthiness of a dict
DictTruthy(d) == DOMAIN d # {}

LowerAlphabet ==
    <<"a","b","c","d","e","f","g","h","i","j","k","l","m","n","o","p","q",
      "r","s","t","u","v","w","x","y","z">>

UpperAlphabet ==
    <<"A","B","C","D","E","F","G","H","I","J","K","L","M","N","O","P","Q",
      "R","S","T","U","V","W","X","Y","Z">>

IndexOf(alphabet, c) ==
    IF \E i \in DOMAIN alphabet : alphabet[i] = c
    THEN CHOOSE i \in DOMAIN alphabet : alphabet[i] = c
    ELSE 0

\* str.lower(), token by token
lower(s) ==
    [i \in DOMAIN s |->
        IF IndexOf(UpperAlphabet, s[i]) # 0
        THEN LowerAlphabet[IndexOf(UpperAlphabet, s[i])]
        ELSE s[i]]

\* str.upper(), token by token; the one whole literal it is applied to
\* ('standard business tone', main_backend.py line 206) has its own entry.
upper(s) ==
    [i \in DOMAIN s |->
        IF IndexOf(LowerAlphabet, s[i]) # 0
        THEN UpperAlphabet[IndexOf(LowerAlphabet, s[i])]
        ELSE IF s[i] = "standard business tone"
        THEN "STANDARD BUSINESS TONE"
        ELSE s[i]]

\* sub in s
Contains(s, sub) ==
    \E i \in 0..(Len(s) - Len(sub)) : SubSeq(s, i + 1, i + Len(sub)) = sub

\* s.count(sub) for a sub that cannot overlap itself
Count(s, sub) ==
    Cardinality({i \in 0..(Len(s) - Len(sub)) : SubSeq(s, i + 1, i + Len(sub)) = sub})

Whitespace == {" ", "\n", "\t"}

RECURSIVE lstrip(_)
lstrip(s) ==
    IF s # << >> /\ Head(s) \in Whitespace THEN lstrip(Tail(s)) ELSE s

RECURSIVE rstrip(_)
rstrip(s) ==
    IF s # << >> /\ s[Len(s)] \in Whitespace
    THEN rstrip(SubSeq(s, 1, Len(s) - 1))
    ELSE s

\* str.strip()
strip(s) == rstrip(lstrip(s))

\* sep.join(items), items a sequence of str
RECURSIVE join(_, _)
join(sep, items) ==
    IF items = << >> THEN << >>
    ELSE IF Len(items) = 1 THEN items[1]
    ELSE items[1] \o sep \o join(sep, Tail(items))

----------------------------------------------------------------------------
(* src/main_backend.py *)

SupportedLanguages == {"English", "Dutch", "French", "German", "Spanish", "Italian"}

Dear == <<"D","e","a","r"," ","(","#",")">>

\* get_greeting_format: the table greeting_formats (lines 75-100)
greeting_formats ==
    ("English" :> [formal   |-> <<"D","e","a","r"," ","(","#",")">>,
                   informal |-> <<"D","e","a","r"," ","(","#",")">>] @@
     "Dutch"   :> [formal   |-> <<"G","e","a","c","h","t","e"," ","(","#",")">>,
                   informal |-> <<"B","e","s","t","e"," ","(","#",")">>] @@
     "French"  :> [formal   |-> <<"M","a","d","a","m","e",","," ","M","o","n","s","i","e","u","r">>,
                   informal |-> <<"B","o","n","j","o","u","r"," ","(","#",")">>] @@
     "German"  :> [formal   |-> <<"S","e","h","r"," ","g","e","e","h","r","t","e","/","r"," ","(","#",")">>,
                   informal |-> <<"H","a","l","l","o"," ","(","#",")">>] @@
     "Spanish" :> [formal   |-> <<"E","s","t","i","m","a","d","o","/","a"," ","(","#",")">>,
                   informal |-> <<"H","o","l","a"," ","(","#",")">>] @@
     "Italian" :> [formal   |-> <<"G","e","n","t","i","l","e"," ","(","#",")">>,
                   informal |-> <<"S","a","l","v","e"," ","(","#",")">>])

\* The exception a subscript lookup of a missing key raises.
KeyError == <<"<KeyError>">>

\* A slip of get_greeting_format: greeting_formats[language] in place of
\* greeting_formats.get(language, default).
get_greeting_format_subscript(lang, formality) ==
    IF lang \notin DOMAIN greeting_formats THEN KeyError
    ELSE IF Truthy(formality) /\ Contains(lower(formality), <<"f","o","r","m","a","l">>)
    THEN greeting_formats[lang]["formal"]
    ELSE IF Truthy(formality) /\ Contains(lower(formality), <<"i","n","f","o","r","m","a","l">>)
    THEN greeting_formats[lang]["informal"]
    ELSE greeting_formats[lang]["formal"]

get_greeting_format(lang, formality) ==
    LET base_format ==
            IF lang \in DOMAIN greeting_formats
            THEN greeting_formats[lang]
            ELSE [formal |-> Dear, informal |-> Dear]
    IN  IF Truthy(formality) /\ Contains(lower(formality), <<"f","o","r","m","a","l">>)
        THEN DictGet(base_format, "formal", Dear)
        ELSE IF Truthy(formality) /\ Contains(lower(formality), <<"i","n","f","o","r","m","a","l">>)
        THEN DictGet(base_format, "informal", Dear)
        ELSE \* Default to formal for business contexts
             DictGet(base_format, "formal", Dear)

\* get_language_instructions: the table language_guides (lines 114-175)
language_guides ==
    ("Dutch" :> [
        formal |-> [
            style |-> <<"Use natural, business-appropriate Dutch with 'u' for formal address. Avoid overly formal constructions like 'ik ben goed uitgerust om de taak' - use more natural expressions like 'ik heb ervaring met' or 'ik zou graag bijdragen aan'. Include typical Dutch business expressions like 'graag', 'bijzonder', 'uitstekend'.">>,
            cultural |-> <<"Dutch business culture values directness and efficiency. Be straightforward but polite. Use natural, conversational tone even in formal contexts.">>,
            avoid |-> <<"Avoid overly formal or literal translations from English. Don't use constructions like 'goed uitgerust zijn om' - this sounds unnatural in Dutch.">>
        ],
        informal |-> [
            style |-> <<"Use natural, friendly Dutch with 'je' for informal address. Keep it professional but approachable. Use common Dutch expressions and natural sentence structures.">>,
            cultural |-> <<"Dutch informal business communication is still professional but more relaxed and personal.">>,
            avoid |-> <<"Avoid overly casual expressions that might be unprofessional in a business context.">>
        ]
    ] @@
    "French" :> [
        formal |-> [
            style |-> <<"Use formal French with proper business etiquette. Use 'vous' form throughout. Include sophisticated vocabulary and proper French business expressions.">>,
            cultural |-> <<"French business culture appreciates elegance and sophistication. Use refined language and show appreciation for the company's values.">>,
            avoid |-> <<"Avoid overly complex sentence structures that might sound unnatural.">>
        ],
        informal |-> [
            style |-> <<"Use 'tu' form but maintain professional tone. French informal business communication still requires elegance.">>,
            cultural |-> <<"French informal business communication maintains a certain level of sophistication.">>,
            avoid |-> <<"Avoid overly casual expressions that might be inappropriate in business contexts.">>
        ]
    ] @@
    "German" :> [
        formal |-> [
            style |-> <<"Use formal German (Sie form). German business communication is precise and structured. Use compound words appropriately and maintain professional tone.">>,
            cultural |-> <<"German business culture values precision, reliability, and thoroughness. Be specific about qualifications and achievements.">>,
            avoid |-> <<"Avoid overly complex compound words that might be hard to read.">>
        ],
        informal |-> [
            style |-> <<"Use 'du' form but maintain professional structure and precision typical of German business communication.">>,
            cultural |-> <<"German informal business communication still values clarity and precision.">>,
            avoid |-> <<"Avoid overly casual expressions that might seem unprofessional.">>
        ]
    ] @@
    "Spanish" :> [
        formal |-> [
            style |-> <<"Use formal Spanish with usted form. Include appropriate business vocabulary and maintain professional but warm tone typical of Spanish business culture.">>,
            cultural |-> <<"Spanish business culture values personal relationships and enthusiasm. Show genuine interest and passion for the role.">>,
            avoid |-> <<"Avoid overly formal expressions that might sound cold or distant.">>
        ],
        informal |-> [
            style |-> <<"Use 'tu' form but maintain professional warmth and enthusiasm typical of Spanish business culture.">>,
            cultural |-> <<"Spanish informal business communication still emphasizes personal connection and enthusiasm.">>,
            avoid |-> <<"Avoid overly casual expressions that might be inappropriate in business contexts.">>
        ]
    ] @@
    "Italian" :> [
        formal |-> [
            style |-> <<"Use formal Italian with Lei form. Italian business communication balances professionalism with warmth and personal touch.">>,
            cultural |-> <<"Italian business culture appreciates passion, creativity, and personal connection. Show enthusiasm while maintaining professionalism.">>,
            avoid |-> <<"Avoid overly formal expressions that might sound cold or distant.">>
        ],
        informal |-> [
            style |-> <<"Use 'tu' form but maintain the warmth and personal touch typical of Italian business communication.">>,
            cultural |-> <<"Italian informal business communication still emphasizes passion and personal connection.">>,
            avoid |-> <<"Avoid overly casual expressions that might be inappropriate in business contexts.">>
        ]
    ])

\* A slip of lines 186-188: the default branch returns the informal guide.
get_language_instructions_default_informal(lang, formality) ==
    LET base_guide == DictGet(language_guides, lang, EmptyDict)
    IN  IF ~DictTruthy(base_guide) THEN EmptyDict
        ELSE IF Truthy(formality) /\ Contains(lower(formality), <<"f","o","r","m","a","l">>)
        THEN DictGet(base_guide, "formal", EmptyDict)
        ELSE DictGet(base_guide, "informal", EmptyDict)

get_language_instructions(lang, formality) ==
    LET base_guide == DictGet(language_guides, lang, EmptyDict)
    IN  IF ~DictTruthy(base_guide) THEN EmptyDict
        ELSE IF Truthy(formality) /\ Contains(lower(formality), <<"f","o","r","m","a","l">>)
        THEN DictGet(base_guide, "formal", EmptyDict)
        ELSE IF Truthy(formality) /\ Contains(lower(formality), <<"i","n","f","o","r","m","a","l">>)
        THEN DictGet(base_guide, "informal", EmptyDict)
        ELSE \* Default to formal for business contexts
             DictGet(base_guide, "formal", EmptyDict)

\* A slip of line 199: the join without its fallback.
tone_string_no_fallback(tone_list) ==
    LET t == IF tone_list = None THEN << >> ELSE tone_list
    IN  join(<<", ">>, t)

\* build_prompt, lines 196-199: the rendered tone
tone_string(tone_list) ==
    LET t == IF tone_list = None THEN << >> ELSE tone_list
    IN  IF t # << >> THEN join(<<", ">>, t) ELSE <<"natural, confident">>

\* The f-string of lines 207-215 for a given guide.
language_instruction_text(lang, formality, lang_guide) ==
    LET formality_desc ==
            IF Truthy(formality) THEN formality ELSE <<"standard business tone">>
    IN  <<"\n        LANGUAGE: Write in ", lang, " using ">> \o formality_desc
        \o <<".\n        \n        FORMALITY LEVEL: ">> \o upper(formality_desc)
        \o <<". You MUST use the appropriate formality level throughout the entire letter - in both the greeting AND the body content.\n        \n        STYLE: ">>
        \o DictGet(lang_guide, "style", << >>)
        \o <<"\n        CULTURAL CONTEXT: ">>
        \o DictGet(lang_guide, "cultural", << >>)
        \o <<"\n        AVOID: ">>
        \o DictGet(lang_guide, "avoid", << >>)
        \o <<"\n        ">>

\* A slip of the language-instruction block: the block is rendered without
\* the test of line 205.
language_instruction_unguarded(lang, formality) ==
    language_instruction_text(lang, formality, get_language_instructions(lang, formality))

\* build_prompt, lines 201-217: the language-instruction sub-block
language_instruction(lang, formality) ==
    LET lang_guide == get_language_instructions(lang, formality)
    IN  IF lang # "English" /\ DictTruthy(lang_guide)
        THEN language_instruction_text(lang, formality, lang_guide)
        ELSE << >>

\* build_prompt, lines 220-239.  Line 231 is a plain string literal (it has
\* no f prefix), so its braces are kept as written.
backend_system_instructions(tone_list, lang, formality) ==
    <<"You are a personal assistant that writes professional job application cover letters and responses. ",
      "Always write in first person as the job applicant expressing interest in the position. ",
      "Only use information from the resume, cover letter, user-provided notes, and job description. ",
      "Do not invent details. If a skill or experience is missing, emphasize transferable skills instead. ",
      "Explicitly connect your skills, projects, or achievements to the requirements in the job description, ",
      "and use keywords from the posting where appropriate. ",
      "Focus on how you can deliver value to the company, not just on listing skills. ",
      "Make sure to bring variety in sentences, not just starting with 'My', 'I', or 'Me'. ",
      "Each sentence should be under 20 words for readability. ",
      "If measurable results are present in the resume/cover letter, include one strong example. ",
      "MANDATORY GREETING FORMAT: The cover letter MUST begin with the exact format provided: '{greeting_format}' where (#) is a placeholder. ",
      "Format: Write a complete professional cover letter with: ",
      "1) A proper introduction/greeting ('">>
    \o get_greeting_format(lang, formality)
    \o <<"' where (#) is a placeholder for the recipient's name - use this exact format), ",
         "2) Exactly 3 body paragraphs, each containing 40-55 words, expressing enthusiasm for the role and connecting your skills and qualifications to the job requirements, ",
         "3) Followed by a short closing paragraph with a confident, positive one-liner sentence about contributing to the role or team, ",
         "4) An official closing (e.g., 'Sincerely' or appropriate closing for the language) followed by your full name and email address (extract from resume), then on a new line add: [LinkedIn](#) | [Github](#) | [Website](#) as placeholders. ",
         "CRITICAL: Do not repeat information across paragraphs. The closing paragraph (step 3) must be distinct from the third body paragraph (step 2) - avoid repeating phrases like 'I look forward to' or similar expressions in both. ",
         "Keep tone: ">>
    \o tone_string(tone_list) \o <<". ">> \o language_instruction(lang, formality)

\* build_prompt, lines 241-259
backend_user_content(resume, cover, job, notes, lang, formality) ==
    <<"Resume:\n">> \o resume \o <<"\n\n">>
    \o <<"Cover Letter:\n">> \o cover \o <<"\n\n">>
    \o <<"Job Description:\n">> \o job \o <<"\n\n">>
    \o <<"Additional Notes (user-provided):\n">> \o notes \o <<"\n\n">>
    \o <<"Language:\n", lang, "\n">>
    \o <<"Formality:\n">>
    \o (IF Truthy(formality) THEN formality ELSE <<"Standard business tone">>)
    \o <<"\n\n">>
    \o <<"Instructions: Using only the information above, produce a complete professional cover letter tailored to the job description. ",
         "Make it sound natural and professional - not like an AI. Avoid complex language use like 'prowess', 'honed', or 'renowned'. ",
         "Do not add any claims not supported by the provided materials. ",
         "If no direct match is found, highlight transferable skills starting with your study background or related projects. ",
         "This should be a job application cover letter, not a response from the employer. ",
         "Structure requirements: ",
         "1) Start with a proper greeting ('">>
    \o get_greeting_format(lang, formality)
    \o <<"' where (#) is a placeholder for the recipient's name - use this exact format), ",
         "2) Write exactly 3 body paragraphs of 40-55 words each, expressing enthusiasm for the role and connecting your skills and qualifications to the job requirements, ",
         "3) Followed by a short closing paragraph with a confident, positive one-liner sentence about contributing to the role or team, ",
         "4) End with an official closing (e.g., 'Sincerely' or appropriate closing for the language) followed by your full name and email address (extract from resume), then on a new line add: [LinkedIn](#) | [Github](#) | [Website](#) as placeholders. ",
         "CRITICAL: The closing paragraph (step 3) must be distinct from the third body paragraph (step 2). Do not repeat phrases like 'I look forward to contributing' or similar expressions in both paragraphs. ">>

\* build_prompt of main_backend.py: the returned pair, with the locals the
\* body computes on the way.
build_prompt(resume, cover, job, notes, tone_list, lang, formality) ==
    [tone                 |-> tone_string(tone_list),
     lang_guide           |-> get_language_instructions(lang, formality),
     language_instruction |-> language_instruction(lang, formality),
     greeting_format      |-> get_greeting_format(lang, formality),
     system_instructions  |-> backend_system_instructions(tone_list, lang, formality),
     user_content         |-> backend_user_content(resume, cover, job, notes, lang, formality)]

----------------------------------------------------------------------------
(* src/job-application.py: functions *)

\* load_api_key (lines 23-49).  A source that is missing is None: no
\* OPENAI_API_KEY entry in st.secrets (or no secrets store at all, which the
\* try/except swallows), no environment variable, no OPENAI_API_KEY.txt.
load_api_key(secrets, env, file) ==
    IF secrets # None /\ Truthy(secrets) /\ strip(secrets) # << >>
    THEN strip(secrets)
    ELSE IF Truthy(env) /\ strip(env) # << >>
    THEN strip(env)
    ELSE IF file # None /\ strip(file) # << >>
    THEN strip(file)
    ELSE None

\* The name openai before line 55 has run: reading it raises NameError.
Unbound == <<"<unbound>">>

\* Lines 51-55: openai = OpenAI(api_key=api_key), only if api_key.
bind_openai(key) == IF Truthy(key) THEN key ELSE Unbound

\* st.error of line 48, shown whenever load_api_key returns None.
startup_messages(key) ==
    IF key = None THEN <<"error: OpenAI API key not found in environment variables.">>
    ELSE << >>

\* An uploaded document whose parser raises.
Corrupt == <<"<corrupt>">>

\* extract_text_from_pdf (lines 57-62)
extract_text_from_pdf(file_bytes) ==
    IF file_bytes = Corrupt THEN << >> ELSE file_bytes

\* extract_text_from_docx (lines 64-72)
extract_text_from_docx(file_bytes) ==
    IF file_bytes = Corrupt THEN << >> ELSE file_bytes

NoFile == [type |-> "none", bytes |-> << >>]

\* Lines 217-222 and 223-228: the text of one uploaded file.
extract_upload(file) ==
    IF file = NoFile THEN << >>
    ELSE IF file.type = "application/pdf" THEN extract_text_from_pdf(file.bytes)
    ELSE extract_text_from_docx(file.bytes)

\* What requests.get and the parser make of a URL: an exception, or the
\* texts get_text(strip=True) of the h1/h2/h3/p/li tags of the page.
FetchFailure == [ok |-> FALSE, tags |-> << >>]

RECURSIVE nonempty_texts(_)
nonempty_texts(tags) ==
    IF tags = << >> THEN << >>
    ELSE IF Head(tags) # << >> THEN <<Head(tags)>> \o nonempty_texts(Tail(tags))
    ELSE nonempty_texts(Tail(tags))

\* fetch_job_description (lines 74-86)
fetch_job_description(page) ==
    IF ~page.ok THEN << >>
    ELSE join(<<"\n">>, nonempty_texts(page.tags))

\* get_language_instructions of job-application.py (lines 88-118)
app_language_guides ==
    ("Dutch" :> [
        style |-> <<"Use formal but approachable Dutch. Avoid overly complex sentence structures. Use 'u' for formal address. Include typical Dutch business expressions like 'graag', 'bijzonder', 'uitstekend'.">>,
        cultural |-> <<"Dutch business culture values directness and efficiency. Be straightforward but polite. Mention specific achievements with confidence.">>,
        examples |-> <<"Good phrases: 'Ik ben bijzonder geinteresseerd in...', 'Mijn ervaring met... maakt mij een sterke kandidaat', 'Ik zou graag de kans krijgen om...'">>
    ] @@
     "French" :> [
        style |-> <<"Use formal French with proper business etiquette. Use 'vous' form throughout. Include sophisticated vocabulary and proper French business expressions.">>,
        cultural |-> <<"French business culture appreciates elegance and sophistication. Use refined language and show appreciation for the company's values.">>,
        examples |-> <<"Good phrases: 'Je suis particulierement interesse(e) par...', 'Mon experience dans... me permet de...', 'J'aimerais avoir l'opportunite de...'">>
    ] @@
     "German" :> [
        style |-> <<"Use formal German (Sie form). German business communication is precise and structured. Use compound words appropriately and maintain professional tone.">>,
        cultural |-> <<"German business culture values precision, reliability, and thoroughness. Be specific about qualifications and achievements.">>,
        examples |-> <<"Good phrases: 'Ich bin besonders interessiert an...', 'Meine Erfahrung in... qualifiziert mich fur...', 'Ich wurde mich freuen, die Gelegenheit zu bekommen...'">>
    ] @@
     "Spanish" :> [
        style |-> <<"Use formal Spanish with usted form. Include appropriate business vocabulary and maintain professional but warm tone typical of Spanish business culture.">>,
        cultural |-> <<"Spanish business culture values personal relationships and enthusiasm. Show genuine interest and passion for the role.">>,
        examples |-> <<"Good phrases: 'Estoy especialmente interesado/a en...', 'Mi experiencia en... me convierte en un candidato ideal', 'Me encantaria tener la oportunidad de...'">>
    ] @@
     "Italian" :> [
        style |-> <<"Use formal Italian with Lei form. Italian business communication balances professionalism with warmth and personal touch.">>,
        cultural |-> <<"Italian business culture appreciates passion, creativity, and personal connection. Show enthusiasm while maintaining professionalism.">>,
        examples |-> <<"Good phrases: 'Sono particolarmente interessato/a a...', 'La mia esperienza in... mi rende un candidato ideale', 'Mi piacerebbe avere l'opportunita di...'">>
    ])

app_get_language_instructions(lang) == DictGet(app_language_guides, lang, EmptyDict)

\* build_prompt of job-application.py, lines 131-150
app_language_instruction(lang) ==
    LET lang_guide == app_get_language_instructions(lang)
    IN  IF lang # "English" /\ DictTruthy(lang_guide)
        THEN <<"\n        CRITICAL: Write the response in ", lang,
               ". Follow these specific guidelines for native-quality output:\n\n        Style: ">>
             \o DictGet(lang_guide, "style", << >>)
             \o <<"\n        Cultural Context: ">>
             \o DictGet(lang_guide, "cultural", << >>)
             \o <<"\n        Example Phrases: ">>
             \o DictGet(lang_guide, "examples", << >>)
             \o <<"\n\n        IMPORTANT:\n        - Use only native-level ", lang,
                  " expressions\n        - Ensure the text sounds natural to a native ", lang,
                  " speaker\n        - Use appropriate formal/informal register for business context\n        - Avoid literal translations from English\n        ">>
        ELSE << >>

\* build_prompt of job-application.py (lines 120-184): the returned pair,
\* with the local language_instruction.
app_build_prompt(resume, cover, job, notes, tone_list, lang) ==
    [tone                 |-> tone_string(tone_list),
     language_instruction |-> app_language_instruction(lang),
     system_instructions |->
        <<"You are a personal assistant that writes professional job application cover letters and responses.",
          "Always write in first person as the job applicant expressing interest in the position.",
          "Begin by expressing enthusiasm for the specific role and company you're applying to.",
          "Only use information from the resume, cover letter, user-provided notes, and job description.",
          "Do not invent details. If a skill or experience is missing, emphasize transferable skills instead.",
          "Explicitly connect your skills, projects, or achievements to the requirements in the job description, ",
          "and use keywords from the posting where appropriate.",
          "Focus on how you can deliver value to the company, not just on listing skills.",
          "Make sure to bring variety in sentences, not just starting with 'My', 'I', or 'Me'.",
          "Target length: 200-250 words (3-4 short paragraphs).",
          "Each sentence should be under 20 words for readability.",
          "If measurable results are present in the resume/cover letter, include one strong example.",
          "Always close with a confident, positive line about contributing to the role or team.",
          "Keep tone: ">>
        \o tone_string(tone_list) \o <<". ">> \o app_language_instruction(lang),
     user_content |->
        <<"Resume:\n">> \o resume \o <<"\n\n">>
        \o <<"Cover Letter:\n">> \o cover \o <<"\n\n">>
        \o <<"Job Description:\n">> \o job \o <<"\n\n">>
        \o <<"Additional Notes (user-provided):\n">> \o notes \o <<"\n\n">>
        \o <<"Tone:\n">> \o tone_string(tone_list) \o <<"\n\n">>
        \o <<"Language:\n", lang, "\n\n">>
        \o <<"Instructions: Using only the information above, produce a cohesive reply tailored to the job description.",
             "Make it sound natural, confident, and professional - not like an AI. Avoid complex language use like 'prowess', 'honed', or 'renowned'.",
             "Show enthusiasm for the role, align your skills with requirements, and highlight how you will add value to the company.",
             "Do not add any claims not supported by the provided materials.",
             "If no direct match is found, highlight transferable skills starting with your study background or related projects.",
             "This should be a job application cover letter, not a response from the employer.">>]

----------------------------------------------------------------------------
(* src/job-application.py: the script run that a click on "Generate reply"
   starts *)

\* Longest reply of the generation service that is explored.
MaxReplyLen == 2

ReplyAlphabet == {" ", "a"}

ReplyTexts == UNION {[1..n -> ReplyAlphabet] : n \in 0..MaxReplyLen}

\* What openai.chat.completions.create does: it raises, or it returns a
\* completion whose message content is a str or None.
ServiceOutcomes ==
    {[raised |-> TRUE, content |-> None]}
    \cup {[raised |-> FALSE, content |-> c] : c \in ReplyTexts \cup {None}}

\* What the environment holds for each source of the credential.
CredentialValues == {None, <<" ">>, <<" ","k"," ">>}

\* What the upload widgets can hold.
Uploads ==
    {NoFile,
     [type |-> "application/pdf", bytes |-> Corrupt],
     [type |-> "application/vnd.openxmlformats-officedocument.wordprocessingml.document",
      bytes |-> <<"d","o","c">>]}

JobUrls == {<< >>, <<"u","r","l">>}

JobTexts == {<< >>, <<"j","o","b">>}

\* What a fetched page can be.
Pages ==
    {FetchFailure,
     [ok |-> TRUE, tags |-> << >>],
     [ok |-> TRUE, tags |-> << << >>, <<"p","1">>, <<"p","2">> >>]}

AppTones == {<< <<"Confident">>, <<"Natural">> >>}

AppLanguages == {"English", "Dutch"}

AppNotes == {<< >>}

NoRequest == [sent |-> FALSE]

NoResponse == [raised |-> FALSE, content |-> None]

UploadError == "error: Please upload at least your resume or cover letter."

NoJobWarning == "warning: No job description provided so the reply will be generic based only on your resume/cover letter."

KeyMissingError == "error: OpenAI API key missing. Please check your API key file or environment variable."

KeyNotFoundError == "error: OpenAI API key not found in environment variables."

GeneratingInfo == "info: Generating... this can take a few seconds"

ReplyGenerated == "success: Reply generated"

GeneratingError == "error: Error while generating"

NameErrorTrace == "exception: NameError: name 'openai' is not defined"

\* The session after the page was first loaded: the script has run once
\* from top to bottom with the button not clicked.
AppIdle ==
    /\ api_key = load_api_key(secrets_key, env_key, file_key)
    /\ openai = bind_openai(api_key)
    /\ resume_file = NoFile
    /\ cover_file = NoFile
    /\ job_url = << >>
    /\ job_text_area = << >>
    /\ tone = << >>
    /\ language = "English"
    /\ additional_notes = << >>
    /\ resume_text = << >>
    /\ cover_text = << >>
    /\ job_text = << >>
    /\ system_instructions = << >>
    /\ user_content = << >>
    /\ request = NoRequest
    /\ response = NoResponse
    /\ messages = startup_messages(api_key)
    /\ fetch_calls = 0
    /\ fetch_ok = FALSE
    /\ service_calls = 0
    /\ generated_reply = << >>
    /\ pc = "ready"

\* The user fills the form and clicks the button; the script reruns from
\* the top: lines 51-55, the widgets (192-211), then lines 214-216.
ClickGenerate ==
    /\ pc \in {"ready", "done", "crashed"}
    /\ resume_file' \in Uploads
    /\ cover_file' \in Uploads
    /\ job_url' \in JobUrls
    /\ job_text_area' \in JobTexts
    /\ tone' \in AppTones
    /\ language' \in AppLanguages
    /\ additional_notes' \in AppNotes
    /\ api_key' = load_api_key(secrets_key, env_key, file_key)
    /\ openai' = bind_openai(api_key')
    /\ messages' = startup_messages(api_key')
    /\ resume_text' = << >>
    /\ cover_text' = << >>
    /\ job_text' = job_text_area'
    /\ system_instructions' = << >>
    /\ user_content' = << >>
    /\ request' = NoRequest
    /\ response' = NoResponse
    /\ fetch_calls' = 0
    /\ fetch_ok' = FALSE
    /\ service_calls' = 0
    /\ pc' = "extract"
    /\ UNCHANGED <<secrets_key, env_key, file_key, generated_reply>>
    /\ UNCHANGED backend_vars

\* Between two runs the fallback file OPENAI_API_KEY.txt is written or
\* removed; load_api_key reads it anew in the next run (lines 40-46).
EditKeyFile ==
    /\ pc \in {"ready", "done", "crashed"}
    /\ file_key' \in CredentialValues \ {file_key}
    /\ UNCHANGED <<secrets_key, env_key, api_key, openai, resume_file,
                   cover_file, job_url, job_text_area, tone, language,
                   additional_notes, resume_text, cover_text, job_text,
                   system_instructions, user_content, request, response,
                   messages, fetch_calls, fetch_ok, service_calls,
                   generated_reply, pc>>
    /\ UNCHANGED backend_vars

\* Lines 217-228
ExtractDocuments ==
    /\ pc = "extract"
    /\ resume_text' = extract_upload(resume_file)
    /\ cover_text' = extract_upload(cover_file)
    /\ pc' = "job"
    /\ UNCHANGED <<secrets_key, env_key, file_key, api_key, openai, resume_file,
                   cover_file, job_url, job_text_area, tone, language,
                   additional_notes, job_text, system_instructions, user_content,
                   request, response, messages, fetch_calls, fetch_ok,
                   service_calls, generated_reply>>
    /\ UNCHANGED backend_vars

\* A slip of lines 230-232: the URL is fetched whenever one is given.
JobDescription_fetch_any_url ==
    /\ pc = "job"
    /\ IF Truthy(job_url)
       THEN \E page \in Pages :
                /\ job_text' = fetch_job_description(page)
                /\ fetch_calls' = fetch_calls + 1
                /\ fetch_ok' = page.ok
       ELSE UNCHANGED <<job_text, fetch_calls, fetch_ok>>
    /\ pc' = "validate"
    /\ UNCHANGED <<secrets_key, env_key, file_key, api_key, openai, resume_file,
                   cover_file, job_url, job_text_area, tone, language,
                   additional_notes, resume_text, cover_text, system_instructions,
                   user_content, request, response, messages, service_calls,
                   generated_reply>>
    /\ UNCHANGED backend_vars

\* Lines 230-232
JobDescription ==
    /\ pc = "job"
    /\ IF Truthy(job_url) /\ ~Truthy(job_text)
       THEN \E page \in Pages :
                /\ job_text' = fetch_job_description(page)
                /\ fetch_calls' = fetch_calls + 1
                /\ fetch_ok' = page.ok
       ELSE UNCHANGED <<job_text, fetch_calls, fetch_ok>>
    /\ pc' = "validate"
    /\ UNCHANGED <<secrets_key, env_key, file_key, api_key, openai, resume_file,
                   cover_file, job_url, job_text_area, tone, language,
                   additional_notes, resume_text, cover_text, system_instructions,
                   user_content, request, response, messages, service_calls,
                   generated_reply>>
    /\ UNCHANGED backend_vars

\* Lines 234-238.  Neither branch ends the run.
Validate ==
    /\ pc = "validate"
    /\ messages' =
         IF ~(Truthy(resume_text) \/ Truthy(cover_text))
         THEN Append(messages, UploadError)
         ELSE IF ~(Truthy(job_text) \/ Truthy(job_url))
         THEN Append(messages, NoJobWarning)
         ELSE messages
    /\ pc' = "build"
    /\ UNCHANGED <<secrets_key, env_key, file_key, api_key, openai, resume_file,
                   cover_file, job_url, job_text_area, tone, language,
                   additional_notes, resume_text, cover_text, job_text,
                   system_instructions, user_content, request, response,
                   fetch_calls, fetch_ok, service_calls, generated_reply>>
    /\ UNCHANGED backend_vars

\* Lines 240-247: the prompt is built and previewed.
BuildPrompt ==
    /\ pc = "build"
    /\ LET built == app_build_prompt(resume_text, cover_text, job_text,
                                     additional_notes, tone, language)
       IN  /\ system_instructions' = built.system_instructions
           /\ user_content' = built.user_content
    /\ pc' = "credential"
    /\ UNCHANGED <<secrets_key, env_key, file_key, api_key, openai, resume_file,
                   cover_file, job_url, job_text_area, tone, language,
                   additional_notes, resume_text, cover_text, job_text,
                   request, response, messages, fetch_calls, fetch_ok,
                   service_calls, generated_reply>>
    /\ UNCHANGED backend_vars

\* Lines 249-253: reading openai raises NameError when line 55 never ran.
CheckCredential ==
    /\ pc = "credential"
    /\ IF openai = Unbound
       THEN /\ messages' = Append(messages, NameErrorTrace)
            /\ pc' = "crashed"
       ELSE IF ~Truthy(openai)
       THEN /\ messages' = Append(messages, KeyMissingError)
            /\ pc' = "done"
       ELSE /\ messages' = Append(messages, GeneratingInfo)
            /\ pc' = "generate"
    /\ UNCHANGED <<secrets_key, env_key, file_key, api_key, openai, resume_file,
                   cover_file, job_url, job_text_area, tone, language,
                   additional_notes, resume_text, cover_text, job_text,
                   system_instructions, user_content, request, response,
                   fetch_calls, fetch_ok, service_calls, generated_reply>>
    /\ UNCHANGED backend_vars

\* Lines 255-265: the request of the run.
chat_request ==
    [sent        |-> TRUE,
     model       |-> "gpt-4o",
     messages    |-> <<[role |-> "system", content |-> system_instructions],
                       [role |-> "user", content |-> user_content]>>,
     temperature |-> IF language = "English" THEN "0.3" ELSE "0.4",
     max_tokens  |-> 600]

\* A slip of lines 270-271: the except branch resets the reply.
Generate_reset_on_error ==
    /\ pc = "generate"
    /\ \E outcome \in ServiceOutcomes :
        /\ request' = chat_request
        /\ response' = outcome
        /\ service_calls' = service_calls + 1
        /\ IF outcome.raised \/ outcome.content = None
           THEN /\ messages' = Append(messages, GeneratingError)
                /\ generated_reply' = << >>
           ELSE /\ messages' = Append(messages, ReplyGenerated)
                /\ generated_reply' = strip(outcome.content)
    /\ pc' = "done"
    /\ UNCHANGED <<secrets_key, env_key, file_key, api_key, openai, resume_file,
                   cover_file, job_url, job_text_area, tone, language,
                   additional_notes, resume_text, cover_text, job_text,
                   system_instructions, user_content, fetch_calls, fetch_ok>>
    /\ UNCHANGED backend_vars

\* Lines 252-271.  A completion whose content is None makes .strip() raise
\* AttributeError, which the except of line 270 catches like any failure of
\* the call.
Generate ==
    /\ pc = "generate"
    /\ \E outcome \in ServiceOutcomes :
        /\ request' = chat_request
        /\ response' = outcome
        /\ service_calls' = service_calls + 1
        /\ IF outcome.raised \/ outcome.content = None
           THEN /\ messages' = Append(messages, GeneratingError)
                /\ UNCHANGED generated_reply
           ELSE /\ messages' = Append(messages, ReplyGenerated)
                /\ generated_reply' = strip(outcome.content)
    /\ pc' = "done"
    /\ UNCHANGED <<secrets_key, env_key, file_key, api_key, openai, resume_file,
                   cover_file, job_url, job_text_area, tone, language,
                   additional_notes, resume_text, cover_text, job_text,
                   system_instructions, user_content, fetch_calls, fetch_ok>>
    /\ UNCHANGED backend_vars

----------------------------------------------------------------------------
(* Rewrite mode.  src/ holds no rewrite handler; this section follows the
   specification document (sections 4.5, 6, 7 and 8): a rewrite trigger
   wraps the last generated reply in a short rewrite instruction and sends
   it as a single user-role message; success overwrites the slot, failure
   leaves it; without a credential generation is refused and no call is
   made. *)

\* The fixed instruction of the rewrite prompt: same paragraph count, the
\* short-form word band.
RewriteInstruction ==
    "Rewrite the following job application letter. Keep the greeting, exactly 3 body paragraphs of 35-45 words each, a short closing paragraph and the official closing.\n\n"

rewrite_prompt(prior) == <<RewriteInstruction>> \o prior

rewrite_request(prior) ==
    [sent        |-> TRUE,
     model       |-> "gpt-4o",
     messages    |-> <<[role |-> "user", content |-> rewrite_prompt(prior)]>>,
     temperature |-> IF language = "English" THEN "0.3" ELSE "0.4",
     max_tokens  |-> 600]

\* A slip of the rewrite handler: the failure branch resets the reply.
Rewrite_reset_on_error ==
    /\ pc \in {"done", "crashed", "rewritten"}
    /\ Truthy(generated_reply)
    /\ api_key' = load_api_key(secrets_key, env_key, file_key)
    /\ openai' = bind_openai(api_key')
    /\ resume_text' = << >>
    /\ cover_text' = << >>
    /\ job_text' = job_text_area
    /\ system_instructions' = << >>
    /\ user_content' = << >>
    /\ fetch_calls' = 0
    /\ fetch_ok' = FALSE
    /\ IF openai' = Unbound
       THEN /\ messages' = Append(startup_messages(api_key'), KeyMissingError)
            /\ request' = NoRequest
            /\ response' = NoResponse
            /\ service_calls' = 0
            /\ generated_reply' = << >>
       ELSE \E outcome \in ServiceOutcomes :
            /\ request' = rewrite_request(generated_reply)
            /\ response' = outcome
            /\ service_calls' = 1
            /\ IF outcome.raised \/ outcome.content = None
               THEN /\ messages' = <<GeneratingInfo, GeneratingError>>
                    /\ generated_reply' = << >>
               ELSE /\ messages' = <<GeneratingInfo, ReplyGenerated>>
                    /\ generated_reply' = strip(outcome.content)
    /\ pc' = "rewritten"
    /\ UNCHANGED <<secrets_key, env_key, file_key, resume_file, cover_file,
                   job_url, job_text_area, tone, language, additional_notes>>
    /\ UNCHANGED backend_vars

\* The user triggers a rewrite of the last generated reply; the script
\* reruns from the top and takes the rewrite branch.
Rewrite ==
    /\ pc \in {"done", "crashed", "rewritten"}
    /\ Truthy(generated_reply)
    /\ api_key' = load_api_key(secrets_key, env_key, file_key)
    /\ openai' = bind_openai(api_key')
    /\ resume_text' = << >>
    /\ cover_text' = << >>
    /\ job_text' = job_text_area
    /\ system_instructions' = << >>
    /\ user_content' = << >>
    /\ fetch_calls' = 0
    /\ fetch_ok' = FALSE
    /\ IF openai' = Unbound
       THEN /\ messages' = Append(startup_messages(api_key'), KeyMissingError)
            /\ request' = NoRequest
            /\ response' = NoResponse
            /\ service_calls' = 0
            /\ UNCHANGED generated_reply
       ELSE \E outcome \in ServiceOutcomes :
            /\ request' = rewrite_request(generated_reply)
            /\ response' = outcome
            /\ service_calls' = 1
            /\ IF outcome.raised \/ outcome.content = None
               THEN /\ messages' = <<GeneratingInfo, GeneratingError>>
                    /\ UNCHANGED generated_reply
               ELSE /\ messages' = <<GeneratingInfo, ReplyGenerated>>
                    /\ generated_reply' = strip(outcome.content)
    /\ pc' = "rewritten"
    /\ UNCHANGED <<secrets_key, env_key, file_key, resume_file, cover_file,
                   job_url, job_text_area, tone, language, additional_notes>>
    /\ UNCHANGED backend_vars

----------------------------------------------------------------------------
(* Calls of the pure functions: those of src/main_backend.py, and
   build_prompt of src/job-application.py *)

\* The two formality labels of each language that has a formal and an
\* informal address (the selectable values of the formality input).
FormalLabel ==
    ("Dutch"   :> <<"F","o","r","m","a","l"," ","(","u",")">> @@
     "French"  :> <<"F","o","r","m","a","l"," ","(","v","o","u","s",")">> @@
     "German"  :> <<"F","o","r","m","a","l"," ","(","S","i","e",")">> @@
     "Spanish" :> <<"F","o","r","m","a","l"," ","(","u","s","t","e","d",")">> @@
     "Italian" :> <<"F","o","r","m","a","l"," ","(","L","e","i",")">>)

InformalLabel ==
    ("Dutch"   :> <<"I","n","f","o","r","m","a","l"," ","(","j","e",")">> @@
     "French"  :> <<"I","n","f","o","r","m","a","l"," ","(","t","u",")">> @@
     "German"  :> <<"I","n","f","o","r","m","a","l"," ","(","d","u",")">> @@
     "Spanish" :> <<"I","n","f","o","r","m","a","l"," ","(","t","u",")">> @@
     "Italian" :> <<"I","n","f","o","r","m","a","l"," ","(","t","u",")">>)

NonDefaultLanguages == SupportedLanguages \ {"English"}

UnsupportedLanguages == {"Portuguese", "english", ""}

BackendLanguages == SupportedLanguages \cup UnsupportedLanguages

FormalLabels == {FormalLabel[l] : l \in NonDefaultLanguages}

InformalLabels == {InformalLabel[l] : l \in NonDefaultLanguages}

\* formality: absent (None or ''), or one of the labels
BackendFormalities == {None, << >>} \cup FormalLabels \cup InformalLabels

\* tone: None, or a list of labels of the multiselect
BackendTones ==
    {None, << >>, << <<"Natural">> >>, << <<"Confident">>, <<"Natural">> >>,
     << <<"Natural">>, <<"Confident">> >>}

BackendTexts ==
    [resume_text : {<< >>, <<"r","1">>}, cover_text : {<< >>, <<"c">>},
     job_text : {<< >>, <<"j">>}, additional_notes : {<< >>, <<"n">>}]

NotCalled == [called |-> FALSE]

BackendIdle ==
    /\ b_language = "English"
    /\ b_formality = None
    /\ b_tone = None
    /\ b_texts = [resume_text |-> << >>, cover_text |-> << >>,
                  job_text |-> << >>, additional_notes |-> << >>]
    /\ b_greeting = None
    /\ b_guide = NotCalled
    /\ b_prompt = NotCalled
    /\ a_prompt = NotCalled

BackendArguments ==
    /\ b_language \in BackendLanguages
    /\ b_formality \in BackendFormalities
    /\ b_tone \in BackendTones
    /\ b_texts \in BackendTexts

CallGetGreetingFormat ==
    /\ b_greeting' = get_greeting_format(b_language, b_formality)
    /\ UNCHANGED <<b_language, b_formality, b_tone, b_texts, b_guide, b_prompt, a_prompt>>
    /\ UNCHANGED app_vars

CallGetLanguageInstructions ==
    /\ b_guide' = [called |-> TRUE,
                   value  |-> get_language_instructions(b_language, b_formality)]
    /\ UNCHANGED <<b_language, b_formality, b_tone, b_texts, b_greeting, b_prompt, a_prompt>>
    /\ UNCHANGED app_vars

CallBuildPrompt ==
    /\ b_prompt' = [called |-> TRUE,
                    value  |-> build_prompt(b_texts.resume_text, b_texts.cover_text,
                                            b_texts.job_text, b_texts.additional_notes,
                                            b_tone, b_language, b_formality)]
    /\ UNCHANGED <<b_language, b_formality, b_tone, b_texts, b_greeting, b_guide, a_prompt>>
    /\ UNCHANGED app_vars

\* build_prompt of job-application.py on the same arguments (it takes no
\* formality).
CallAppBuildPrompt ==
    /\ a_prompt' = [called |-> TRUE,
                    value  |-> app_build_prompt(b_texts.resume_text, b_texts.cover_text,
                                                b_texts.job_text, b_texts.additional_notes,
                                                b_tone, b_language)]
    /\ UNCHANGED <<b_language, b_formality, b_tone, b_texts, b_greeting, b_guide, b_prompt>>
    /\ UNCHANGED app_vars

BackendNext ==
    \/ CallGetGreetingFormat
    \/ CallGetLanguageInstructions
    \/ CallBuildPrompt
    \/ CallAppBuildPrompt

----------------------------------------------------------------------------
(* Specifications *)

\* The Streamlit session of src/job-application.py.
Init ==
    /\ secrets_key \in CredentialValues
    /\ env_key \in CredentialValues
    /\ file_key \in CredentialValues
    /\ AppIdle
    /\ BackendIdle

Next ==
    \/ ClickGenerate
    \/ EditKeyFile
    \/ ExtractDocuments
    \/ JobDescription
    \/ Validate
    \/ BuildPrompt
    \/ CheckCredential
    \/ Generate

Spec == Init /\ [][Next]_vars

\* Calls of the pure functions on arguments drawn from the input sets.
BackendInit ==
    /\ secrets_key = None
    /\ env_key = None
    /\ file_key = None
    /\ AppIdle
    /\ BackendArguments
    /\ b_greeting = None
    /\ b_guide = NotCalled
    /\ b_prompt = NotCalled
    /\ a_prompt = NotCalled

BackendSpec == BackendInit /\ [][BackendNext]_vars

\* The session with the rewrite mode added.  The credential comes from the
\* fallback file alone.
RewriteInit ==
    /\ secrets_key = None
    /\ env_key = None
    /\ file_key \in CredentialValues
    /\ AppIdle
    /\ BackendIdle

RewriteNext ==
    \/ Next
    \/ Rewrite

RewriteSpec == RewriteInit /\ [][RewriteNext]_vars

----------------------------------------------------------------------------
(* Properties *)

\* st.error / st.warning / st.info / st.success msg was shown in this run
Shown(msg) == \E i \in DOMAIN messages : messages[i] = msg

\* The run is past the validation of lines 234-238.
Validated == pc \in {"build", "credential", "generate", "done", "crashed"}

\* The run that the click started has ended.
RunEnded == pc \in {"done", "crashed"}

Informal == <<"i","n","f","o","r","m","a","l">>

Placeholder == <<"(","#",")">>

\* The token that follows the marker in a rendered text.
TokenAfter(s, marker) == s[(CHOOSE i \in DOMAIN s : s[i] = marker) + 1]

\* The text that follows the marker in a rendered text.
TextAfter(s, marker) ==
    SubSeq(s, (CHOOSE i \in DOMAIN s : s[i] = marker) + 1, Len(s))

\* x is content without its leading and trailing whitespace.
Trimmed(x, content) ==
    /\ x = << >> \/ (x[1] \notin Whitespace /\ x[Len(x)] \notin Whitespace)
    /\ \E i \in 0..Len(content) :
        /\ i + Len(x) <= Len(content)
        /\ SubSeq(content, i + 1, i + Len(x)) = x
        /\ \A k \in 1..i : content[k] \in Whitespace
        /\ \A k \in (i + Len(x) + 1)..Len(content) : content[k] \in Whitespace

\* C1: when both the extracted resume text and the extracted cover-letter
\* text are empty, the request is rejected with the validation message and
\* the run makes no network call: no job-posting fetch and no call of the
\* generation service.
C1_RejectedBeforeNetwork ==
    (Validated /\ ~Truthy(resume_text) /\ ~Truthy(cover_text))
        => (Shown(UploadError) /\ fetch_calls = 0 /\ service_calls = 0)

\* C2: for each of the five non-default languages, an informal formality
\* label (a string containing 'informal') makes get_greeting_format return
\* the informal greeting template of the language.
C2_InformalGreeting ==
    (/\ b_greeting # None
     /\ b_language \in NonDefaultLanguages
     /\ Truthy(b_formality)
     /\ Contains(lower(b_formality), Informal))
        => b_greeting = greeting_formats[b_language]["informal"]

\* C3: for a non-default language L and a formality f that is the formal or
\* the informal label of L, the style, cultural and avoid fragments embedded
\* in the language-instruction block of build_prompt are those of the guide
\* table cell (L, f).
C3_FragmentsOfCell ==
    (/\ b_prompt.called
     /\ b_language \in NonDefaultLanguages
     /\ b_formality \in {FormalLabel[b_language], InformalLabel[b_language]})
        => LET cell  == IF b_formality = InformalLabel[b_language]
                        THEN "informal" ELSE "formal"
               block == b_prompt.value.language_instruction
               guide == language_guides[b_language][cell]
           IN  /\ block # << >>
               /\ TokenAfter(block, ".\n        \n        FORMALITY LEVEL: ")
                    = upper(b_formality)[1]
               /\ <<TokenAfter(block, ". You MUST use the appropriate formality level throughout the entire letter - in both the greeting AND the body content.\n        \n        STYLE: ")>>
                    = guide.style
               /\ <<TokenAfter(block, "\n        CULTURAL CONTEXT: ")>> = guide.cultural
               /\ <<TokenAfter(block, "\n        AVOID: ")>> = guide.avoid

\* C4: for every supported language and every formality value, the greeting
\* template returned by get_greeting_format holds the placeholder '(#)'
\* exactly once.
C4_OnePlaceholder ==
    (b_greeting # None /\ b_language \in SupportedLanguages)
        => Count(b_greeting, Placeholder) = 1

C6_MissingCredentialHandled ==
    (RunEnded /\ api_key = None)
        => /\ Shown(KeyMissingError) \/ Shown(KeyNotFoundError)
           /\ service_calls = 0
           /\ pc # "crashed"

\* C7: in one run the fetcher is called if and only if a URL is given and
\* the pasted job text is empty, and then exactly once, also when the fetch
\* fails; with both a URL and pasted text the pasted text is the job text
\* given to the prompt builder.
C7_FetchIffUrlAndNoText ==
    /\ fetch_calls <= 1
    /\ pc \in {"ready", "extract", "job"} => fetch_calls = 0
    /\ (Validated \/ pc = "validate")
        => (fetch_calls = 1 <=> (Truthy(job_url) /\ ~Truthy(job_text_area)))
    /\ (pc \in {"credential", "generate", "done", "crashed"}
            /\ Truthy(job_url) /\ Truthy(job_text_area))
        => /\ job_text = job_text_area
           /\ Contains(user_content,
                       <<"Job Description:\n">> \o job_text_area \o <<"\n\n">>)

\* C7 witness: a run ended after its one fetch failed.
C7_FailedFetchNotRetried ==
    /\ pc = "done"
    /\ Truthy(job_url) /\ ~Truthy(job_text_area)
    /\ fetch_calls = 1
    /\ ~fetch_ok

\* C8: when resume or cover-letter text is there and the job text given to
\* the builder is empty, because neither URL nor text was supplied or
\* because the fetch of the URL failed, the missing-job-description warning
\* is shown and the generation service is still called.  (Stated for runs
\* that reach the end of the handler, that is, with a credential.)
C8_EmptyJobTextWarned ==
    (/\ pc = "done"
     /\ Truthy(resume_text) \/ Truthy(cover_text)
     /\ ~Truthy(job_text)
     /\ \/ ~Truthy(job_url) /\ ~Truthy(job_text_area)
        \/ fetch_calls = 1 /\ ~fetch_ok)
        => (Shown(NoJobWarning) /\ service_calls = 1)

\* C9: for language English the language-instruction sub-block of
\* build_prompt is the empty string, whatever the formality, the tone and
\* the texts: nothing follows the tone directive in the system
\* instructions.  Both build_prompt functions are covered.
C9_EnglishNoLanguageBlock ==
    b_language = "English"
        => /\ b_prompt.called
                => LET si == b_prompt.value.system_instructions
                   IN  /\ b_prompt.value.language_instruction = << >>
                       /\ TextAfter(si, "Keep tone: ") = b_prompt.value.tone \o <<". ">>
           /\ a_prompt.called
                => LET si == a_prompt.value.system_instructions
                   IN  /\ a_prompt.value.language_instruction = << >>
                       /\ TextAfter(si, "Keep tone: ") = a_prompt.value.tone \o <<". ">>

\* C9 witness: build_prompt was applied to English with an informal label.
C9_EnglishInformalBuilt ==
    /\ b_language = "English"
    /\ b_formality \in InformalLabels
    /\ b_prompt.called
    /\ a_prompt.called

\* C10: for a language outside the six supported ones, and any formality,
\* get_language_instructions returns the empty bundle, get_greeting_format
\* returns 'Dear (#)', and build_prompt renders an empty language-
\* instruction sub-block with that default greeting; no call raises.
C10_UnsupportedLanguageDefaults ==
    b_language \in UnsupportedLanguages
        => /\ b_guide.called => DOMAIN b_guide.value = {}
           /\ b_greeting # None
                => (b_greeting # KeyError
                    /\ b_greeting = <<"D","e","a","r"," ","(","#",")">>)
           /\ b_prompt.called
                => /\ b_prompt.value.language_instruction = << >>
                   /\ DOMAIN b_prompt.value.lang_guide = {}
                   /\ b_prompt.value.greeting_format
                        = <<"D","e","a","r"," ","(","#",")">>

\* C10 witness: the three functions were applied to an unsupported language
\* with an informal label.
C10_UnsupportedAllCalled ==
    /\ b_language = "Portuguese"
    /\ b_formality \in InformalLabels
    /\ b_guide.called
    /\ b_greeting # None
    /\ b_prompt.called

\* C11: build_prompt renders the tone selection as its labels in input
\* order, joined by ', '; an empty or absent selection renders as
\* 'natural, confident'; the rendered string is what follows 'Keep tone: '
\* in the system instructions.
C11_ToneRendered ==
    b_prompt.called
        => LET rendered == b_prompt.value.tone
               labels   == IF b_tone = None THEN << >> ELSE b_tone
               si       == b_prompt.value.system_instructions
           IN  /\ labels = << >> => rendered = <<"natural, confident">>
               /\ labels # << >>
                    => /\ Len(rendered) = 2 * Len(labels) - 1
                       /\ \A i \in 1..Len(labels) : <<rendered[2 * i - 1]>> = labels[i]
                       /\ \A i \in 1..(Len(labels) - 1) : rendered[2 * i] = ", "
               /\ SubSeq(TextAfter(si, "Keep tone: "), 1, Len(rendered) + 1)
                    = rendered \o <<". ">>

\* C11 witness: build_prompt was applied to a selection that is not in
\* alphabetical order.
C11_UnsortedSelectionBuilt ==
    /\ b_prompt.called
    /\ b_tone = << <<"Natural">>, <<"Confident">> >>
    /\ b_prompt.value.tone = <<"Natural", ", ", "Confident">>

\* The tokens that open a labeled section of a user-content string.
SectionLabelTokens ==
    {"Resume:\n", "Cover Letter:\n", "Job Description:\n",
     "Additional Notes (user-provided):\n", "Tone:\n", "Language:\n",
     "Formality:\n"}

IsSectionLabel(t) == t \in SectionLabelTokens

\* The labeled sections of a user-content string, in their order.
SectionLabels(uc) == SelectSeq(uc, IsSectionLabel)

\* The six sections with their texts, as a user-content string opens.
SixSections(texts, lang, formality) ==
    <<"Resume:\n">> \o texts.resume_text \o <<"\n\n">>
    \o <<"Cover Letter:\n">> \o texts.cover_text \o <<"\n\n">>
    \o <<"Job Description:\n">> \o texts.job_text \o <<"\n\n">>
    \o <<"Additional Notes (user-provided):\n">> \o texts.additional_notes \o <<"\n\n">>
    \o <<"Language:\n", lang, "\n">>
    \o <<"Formality:\n">>
    \o (IF formality \in {None, << >>} THEN <<"Standard business tone">> ELSE formality)
    \o <<"\n\n">>

\* uc is the six sections in order, each with its text verbatim, followed
\* by the restated instruction block, with no other labeled section.
SectionsAsClaimed(uc, texts, lang, formality) ==
    LET six == SixSections(texts, lang, formality)
    IN  /\ SectionLabels(uc)
            = <<"Resume:\n", "Cover Letter:\n", "Job Description:\n",
                "Additional Notes (user-provided):\n", "Language:\n", "Formality:\n">>
        /\ Len(uc) > Len(six)
        /\ SubSeq(uc, 1, Len(six)) = six
        /\ uc[Len(six) + 1] \in
             {"Instructions: Using only the information above, produce a complete professional cover letter tailored to the job description. ",
              "Instructions: Using only the information above, produce a cohesive reply tailored to the job description."}

\* C12: for every input the user content returned by build_prompt consists
\* of the labeled sections Resume, Cover Letter, Job Description, Additional
\* Notes, Language, Formality in that order, each present also when its
\* text is empty and carrying its text verbatim, followed by the restated
\* instruction block.  Stated of both build_prompt functions.
C12_LabeledSections ==
    /\ b_prompt.called
        => SectionsAsClaimed(b_prompt.value.user_content, b_texts, b_language, b_formality)
    /\ a_prompt.called
        => SectionsAsClaimed(a_prompt.value.user_content, b_texts, b_language, b_formality)

\* C12, of build_prompt of main_backend.py alone.
C12_BackendLabeledSections ==
    b_prompt.called
        => SectionsAsClaimed(b_prompt.value.user_content, b_texts, b_language, b_formality)

\* C13: a rewrite is triggered only on a non-empty reply slot; with a
\* credential the generation service is then called exactly once, with a
\* single user-role message that holds the fixed paragraph-count
\* instruction and the prior reply verbatim; on success the slot is
\* overwritten with the new text, on failure it is unchanged.
C13_RewriteMode ==
    [][pc' = "rewritten"
        => /\ Truthy(generated_reply)
           /\ openai' # Unbound
                => /\ service_calls' = 1
                   /\ request'.sent
                   /\ Len(request'.messages) = 1
                   /\ request'.messages[1].role = "user"
                   /\ request'.messages[1].content[1] = RewriteInstruction
                   /\ Contains(request'.messages[1].content, generated_reply)
           /\ openai' = Unbound => service_calls' = 0
           /\ IF service_calls' = 1 /\ ~response'.raised /\ response'.content # None
              THEN Trimmed(generated_reply', response'.content)
              ELSE generated_reply' = generated_reply]_vars

\* C13 witness: a rewrite has just failed in the generation call and the
\* slot still holds the prior reply, which was sent in a single user
\* message.
C13_FailedRewriteKeptReply ==
    /\ pc = "rewritten"
    /\ service_calls = 1
    /\ response.raised
    /\ generated_reply = <<"a", "a">>
    /\ request.messages = <<[role |-> "user", content |-> <<RewriteInstruction, "a", "a">>]>>

\* C14: in the system instructions of build_prompt both directives that
\* state the greeting format, the MANDATORY GREETING FORMAT sentence and
\* structural item 1, carry the greeting template resolved for (language,
\* formality) verbatim between their quotes.
C14_GreetingInDirectives ==
    b_prompt.called
        => LET si == b_prompt.value.system_instructions
               g  == b_prompt.value.greeting_format
           IN  /\ Contains(si,
                    <<"1) A proper introduction/greeting ('">> \o g
                    \o <<"' where (#) is a placeholder for the recipient's name - use this exact format), ">>)
               /\ Contains(si,
                    <<"MANDATORY GREETING FORMAT: The cover letter MUST begin with the exact format provided: '">>
                    \o g \o <<"' where (#) is a placeholder. ">>)

\* C14, of structural item 1 alone.
C14_GreetingInStructuralItem ==
    b_prompt.called
        => Contains(b_prompt.value.system_instructions,
                    <<"1) A proper introduction/greeting ('">>
                    \o b_prompt.value.greeting_format
                    \o <<"' where (#) is a placeholder for the recipient's name - use this exact format), ">>)

\* The greeting, the guide and the fragments embedded in the block are
\* those of the formal cell of the language.
FormalCellResolved ==
    /\ b_greeting # None
        => b_greeting = (IF b_language \in SupportedLanguages
                         THEN greeting_formats[b_language]["formal"]
                         ELSE <<"D","e","a","r"," ","(","#",")">>)
    /\ (b_guide.called /\ b_language \in NonDefaultLanguages)
        => b_guide.value = language_guides[b_language]["formal"]
    /\ b_prompt.called
        => /\ b_prompt.value.greeting_format
                = (IF b_language \in SupportedLanguages
                   THEN greeting_formats[b_language]["formal"]
                   ELSE <<"D","e","a","r"," ","(","#",")">>)
           /\ b_language \in NonDefaultLanguages
                => LET block == b_prompt.value.language_instruction
                       guide == language_guides[b_language]["formal"]
                   IN  /\ block # << >>
                       /\ <<TokenAfter(block, ". You MUST use the appropriate formality level throughout the entire letter - in both the greeting AND the body content.\n        \n        STYLE: ")>>
                            = guide.style
                       /\ <<TokenAfter(block, "\n        CULTURAL CONTEXT: ")>> = guide.cultural
                       /\ <<TokenAfter(block, "\n        AVOID: ")>> = guide.avoid

\* C15: with the formality absent (None or '') get_greeting_format and
\* get_language_instructions resolve to the formal cell of the language, so
\* build_prompt yields the greeting and the fragments of the formal cell,
\* while it names the register 'standard business tone' in the language-
\* instruction block and 'Standard business tone' in the Formality section
\* of the user content.
C15_AbsentFormalityIsFormal ==
    b_formality \in {None, << >>}
        => /\ FormalCellResolved
           /\ b_prompt.called
                => /\ Contains(b_prompt.value.user_content,
                               <<"Formality:\n", "Standard business tone", "\n\n">>)
                   /\ b_language \in NonDefaultLanguages
                        => LET block == b_prompt.value.language_instruction
                           IN  /\ TokenAfter(block, " using ") = "standard business tone"
                               /\ TokenAfter(block, ".\n        \n        FORMALITY LEVEL: ")
                                    = "STANDARD BUSINESS TONE"

\* C15, the other side of the comparison: the formal label of the language
\* resolves to the same formal cell.
C15_FormalLabelIsFormal ==
    (b_language \in NonDefaultLanguages /\ b_formality = FormalLabel[b_language])
        => FormalCellResolved

\* C15 witness: the three functions were applied to Dutch with formality ''.
C15_DutchAbsentAllCalled ==
    /\ b_language = "Dutch"
    /\ b_formality = << >>
    /\ b_greeting = <<"G","e","a","c","h","t","e"," ","(","#",")">>
    /\ b_guide.called
    /\ b_prompt.called

====
